---- MODULE Spec2Model ----
(***************************************************************************)
(* Model of BoardMinutesBuddy (src/board_minutes_buddy.py): the document   *)
(* renderer minutes_to_word_template / parse_and_add_content and the pure  *)
(* text functions it calls.  Text is modelled as TLA+ strings; a character *)
(* is a string of length one; the regular expressions of the source are    *)
(* modelled by operators that compute the same match.                      *)
(***************************************************************************)
EXTENDS Integers, Sequences, FiniteSets, TLC

(***************************************************************************)
(* Bounds of the model.                                                    *)
(***************************************************************************)
\* the raw text has at most this many lines
MaxLines == 3

(***************************************************************************)
(* Characters and the string methods of Python the source uses.            *)
(***************************************************************************)
\* s[i-1], or the empty string outside the text
Ch(s, i) == IF 1 <= i /\ i <= Len(s) THEN SubSeq(s, i, i) ELSE ""

Whitespace == {" ", "\t", "\n"}

Digits == {"0", "1", "2", "3", "4", "5", "6", "7", "8", "9"}

UpperSeq ==
  << "A", "B", "C", "D", "E", "F", "G", "H", "I", "J", "K", "L", "M",
     "N", "O", "P", "Q", "R", "S", "T", "U", "V", "W", "X", "Y", "Z" >>

LowerSeq ==
  << "a", "b", "c", "d", "e", "f", "g", "h", "i", "j", "k", "l", "m",
     "n", "o", "p", "q", "r", "s", "t", "u", "v", "w", "x", "y", "z" >>

Uppers == {UpperSeq[i] : i \in 1..26}

Lowers == {LowerSeq[i] : i \in 1..26}

Letters == Uppers \cup Lowers

\* the class \w of the regular expressions
WordChars == Letters \cup Digits \cup {"_"}

MinOf(S) == CHOOSE x \in S : \A y \in S : x <= y

\* str.upper() on one character
upper_ch(c) ==
  IF c \in Lowers THEN UpperSeq[CHOOSE i \in 1..26 : LowerSeq[i] = c] ELSE c

\* str.upper()
RECURSIVE upper(_)
upper(s) == IF s = "" THEN "" ELSE upper_ch(Ch(s, 1)) \o upper(Tail(s))

\* str.isupper(): some cased character, and no lower-case one
isupper(s) ==
  /\ \E i \in 1..Len(s) : Ch(s, i) \in Uppers
  /\ \A i \in 1..Len(s) : Ch(s, i) \notin Lowers

\* str.startswith(p)
startswith(s, p) == Len(s) >= Len(p) /\ SubSeq(s, 1, Len(p)) = p

\* str.endswith(p)
endswith(s, p) == Len(s) >= Len(p) /\ SubSeq(s, Len(s) - Len(p) + 1, Len(s)) = p

\* s[at:].startswith(p), case folded as under re.IGNORECASE
startswith_ci(s, at, p) ==
  /\ at + Len(p) - 1 <= Len(s)
  /\ upper(SubSeq(s, at, at + Len(p) - 1)) = upper(p)

\* str.find(sub, from) with 1-based positions; 0 when sub does not occur
Find(s, sub, from) ==
  LET hits == {i \in from..(Len(s) - Len(sub) + 1) : SubSeq(s, i, i + Len(sub) - 1) = sub}
  IN  IF hits = {} THEN 0 ELSE MinOf(hits)

\* sub in s
Contains(s, sub) == Find(s, sub, 1) > 0

\* the first position at or after `from` whose character is not in `class`
\* (Len(s) + 1 when there is none): the end of a greedy class* run
RunEnd(s, from, class) ==
  LET stops == {i \in from..Len(s) : Ch(s, i) \notin class}
  IN  IF stops = {} THEN Len(s) + 1 ELSE MinOf(stops)

\* str.lstrip(chars)
lstrip(s, chars) == SubSeq(s, RunEnd(s, 1, chars), Len(s))

\* str.rstrip(chars)
RECURSIVE rstrip(_, _)
rstrip(s, chars) ==
  IF Len(s) > 0 /\ Ch(s, Len(s)) \in chars
    THEN rstrip(SubSeq(s, 1, Len(s) - 1), chars)
    ELSE s

\* str.strip()
strip(s) == rstrip(lstrip(s, Whitespace), Whitespace)

\* str.split(sep)
RECURSIVE split(_, _)
split(s, sep) ==
  LET i == Find(s, sep, 1)
  IN  IF i = 0
        THEN << s >>
        ELSE << SubSeq(s, 1, i - 1) >> \o split(SubSeq(s, i + Len(sep), Len(s)), sep)

\* str.split() with no separator: the maximal runs of non-whitespace
RECURSIVE split_ws(_)
split_ws(s) ==
  LET t == lstrip(s, Whitespace)
      e == RunEnd(t, 1, {Ch(t, i) : i \in 1..Len(t)} \ Whitespace)
  IN  IF t = "" THEN << >> ELSE << SubSeq(t, 1, e - 1) >> \o split_ws(SubSeq(t, e, Len(t)))

\* sep.join(parts)
RECURSIVE join(_, _)
join(parts, sep) ==
  IF Len(parts) = 0 THEN ""
  ELSE IF Len(parts) = 1 THEN parts[1]
  ELSE parts[1] \o sep \o join(Tail(parts), sep)

(***************************************************************************)
(* The document.  A paragraph of the python-docx document is a record:     *)
(* its style, its heading level (0 when it is no heading), and its runs    *)
(* (format, text).  Two more fields are bookkeeping for the properties:    *)
(* text is the text the renderer was handed for it, src the numbers of the *)
(* raw lines it was made from.                                             *)
(***************************************************************************)
Run(fmt, content) == [fmt |-> fmt, content |-> content]

Para(style, level, runs) == [style |-> style, level |-> level, runs |-> runs]

\* doc.add_paragraph(text): one unstyled paragraph holding one plain run
plain_paragraph(text) ==
  Para("Normal", 0, IF text = "" THEN << >> ELSE << Run("normal", text) >>)

\* doc.add_heading(text, level) when the style "Heading <level>" exists
heading_paragraph(text, level) ==
  Para("Heading", level, IF text = "" THEN << >> ELSE << Run("normal", text) >>)

(***************************************************************************)
(* Regular expressions of the renderer.                                    *)
(***************************************************************************)
\* re.match(r'^(#{1,6})\s+(.*)', line): the match, its groups 1 (as a
\* length) and 2
heading_match(line) ==
  LET n == RunEnd(line, 1, {"#"}) - 1
      t == RunEnd(line, n + 1, Whitespace)
  IN  IF n >= 1 /\ n <= 6 /\ t > n + 1
        THEN [ok |-> TRUE, hashes |-> n, text |-> SubSeq(line, t, Len(line))]
        ELSE [ok |-> FALSE, hashes |-> 0, text |-> ""]

\* re.match(r'^[-*+]\s+', line)
bullet_match(line) == Ch(line, 1) \in {"-", "*", "+"} /\ Ch(line, 2) \in Whitespace

\* re.match(r'^\d+\.\s+', line)
number_match(line) ==
  LET d == RunEnd(line, 1, Digits)
  IN  d > 1 /\ Ch(line, d) = "." /\ Ch(line, d + 1) \in Whitespace

\* re.sub(r'^[-*+]\s+', '', line)
strip_bullet(line) ==
  IF bullet_match(line) THEN SubSeq(line, RunEnd(line, 2, Whitespace), Len(line)) ELSE line

\* re.sub(r'^\d+\.\s+', '', line)
strip_number(line) ==
  IF number_match(line)
    THEN SubSeq(line, RunEnd(line, RunEnd(line, 1, Digits) + 1, Whitespace), Len(line))
    ELSE line

\* the text handed to add_list_item: both substitutions, one after the other
list_text(line) == strip_number(strip_bullet(line))

\* re.finditer(r'\*\*(.*?)\*\*', text) from position `from`: the matches in
\* order, each with its first position, the position after it and group 1
RECURSIVE bold_matches(_, _)
bold_matches(text, from) ==
  LET i == Find(text, "**", from)
      j == IF i = 0 THEN 0 ELSE Find(text, "**", i + 2)
  IN  IF i = 0 \/ j = 0
        THEN << >>
        ELSE << [start |-> i, end |-> j + 2, group |-> SubSeq(text, i + 2, j - 1)] >>
             \o bold_matches(text, j + 2)

\* re.match(r'^\*\*(.*?)\*\*', text)
bold_prefix_match(text) == startswith(text, "**") /\ Find(text, "**", 3) > 0

\* re.sub(r'\*\*(.*?)\*\*', r'\1', text)
RECURSIVE strip_bold_from(_, _, _)
strip_bold_from(text, matches, pos) ==
  IF Len(matches) = 0
    THEN SubSeq(text, pos, Len(text))
    ELSE SubSeq(text, pos, matches[1].start - 1) \o matches[1].group
         \o strip_bold_from(text, Tail(matches), matches[1].end)

strip_bold(text) == strip_bold_from(text, bold_matches(text, 1), 1)

\* re.finditer(r'(?<!\*)\*([^*]+?)\*(?!\*)', text) from position `from`
RECURSIVE italic_matches(_, _)
italic_matches(text, from) ==
  LET close(i) == Find(text, "*", i + 1)
      starts == {i \in from..Len(text) :
                   /\ Ch(text, i) = "*"
                   /\ Ch(text, i - 1) # "*"
                   /\ close(i) > i + 1
                   /\ Ch(text, close(i) + 1) # "*"}
      i == MinOf(starts)
  IN  IF starts = {}
        THEN << >>
        ELSE << [start |-> i, end |-> close(i) + 1, group |-> SubSeq(text, i + 1, close(i) - 1)] >>
             \o italic_matches(text, close(i) + 1)

\* the loop of add_formatted_text_to_paragraph over the matches of one
\* pattern: the text before each match as a normal part, then the match
RECURSIVE match_parts(_, _, _, _)
match_parts(text, matches, pos, fmt) ==
  IF Len(matches) = 0
    THEN << >>
    ELSE (IF matches[1].start > pos
            THEN << Run("normal", SubSeq(text, pos, matches[1].start - 1)) >>
            ELSE << >>)
         \o << Run(fmt, matches[1].group) >>
         \o match_parts(text, Tail(matches), matches[1].end, fmt)

\* the position after the last match (1 when there is none)
last_end(matches) == IF Len(matches) = 0 THEN 1 ELSE matches[Len(matches)].end

\* the italic pass of add_formatted_text_to_paragraph over remaining_text
italic_parts(remaining_text) ==
  LET ms == italic_matches(remaining_text, 1)
      cur == last_end(ms)
      found == match_parts(remaining_text, ms, 1, "italic")
               \o (IF cur <= Len(remaining_text)
                     THEN << Run("normal", SubSeq(remaining_text, cur, Len(remaining_text))) >>
                     ELSE << >>)
  IN  IF Len(found) > 0 THEN found ELSE << Run("normal", remaining_text) >>

\* the runs add_formatted_text_to_paragraph adds to a paragraph
add_formatted_text_to_paragraph(text) ==
  LET bolds == bold_matches(text, 1)
      current_pos == last_end(bolds)
      found == match_parts(text, bolds, 1, "bold")
               \o (IF current_pos <= Len(text)
                     THEN italic_parts(SubSeq(text, current_pos, Len(text)))
                     ELSE << >>)
      parts == IF Len(found) = 0 THEN << Run("normal", text) >> ELSE found
  IN  SelectSeq(parts, LAMBDA p : strip(p.content) # "")

(***************************************************************************)
(* is_heading and get_heading_level.                                       *)
(***************************************************************************)
\* the alternatives of heading_patterns[4] and heading_patterns[5]
MeetingTerms == {"REPORT", "MINUTES", "AGENDA", "DISCUSSION", "ACTION", "MOTION"}

MeetingSections ==
  {"CALL TO ORDER", "COMMUNICATIONS", "CONSENT AGENDA", "ACTION ITEMS",
   "INFORMATION ITEMS", "ADJOURN"}

\* r'^\d+\.\s+' is number_match; r'^[IVX]+\.\s+' under re.IGNORECASE
roman_match_ci(line) ==
  LET r == RunEnd(line, 1, {"I", "V", "X", "i", "v", "x"})
  IN  r > 1 /\ Ch(line, r) = "." /\ Ch(line, r + 1) \in Whitespace

\* r'^[A-Z]\.\s+' under re.IGNORECASE
letter_match_ci(line) ==
  Ch(line, 1) \in Letters /\ Ch(line, 2) = "." /\ Ch(line, 3) \in Whitespace

\* r'^[A-Z][A-Z\s]+:?' under re.IGNORECASE
all_caps_match_ci(line) ==
  Ch(line, 1) \in Letters /\ Ch(line, 2) \in (Letters \cup Whitespace)

\* r'^\w+\s*(REPORT|MINUTES|AGENDA|DISCUSSION|ACTION|MOTION)' under
\* re.IGNORECASE: some split of a prefix into \w+ and \s* is followed by a term
meeting_term_match_ci(line) ==
  LET word_end == RunEnd(line, 1, WordChars)
  IN  \E i \in 1..(word_end - 1) :
        LET space_end == RunEnd(line, i + 1, Whitespace)
        IN  \E j \in i..(space_end - 1) :
              \E term \in MeetingTerms : startswith_ci(line, j + 1, term)

\* r'^(CALL TO ORDER|...|ADJOURN)' under re.IGNORECASE
meeting_section_match_ci(line) ==
  \E section \in MeetingSections : startswith_ci(line, 1, section)

\* any(re.match(pattern, line, re.IGNORECASE) for pattern in heading_patterns)
heading_patterns_match(line) ==
  \/ number_match(line)
  \/ roman_match_ci(line)
  \/ letter_match_ci(line)
  \/ all_caps_match_ci(line)
  \/ meeting_term_match_ci(line)
  \/ meeting_section_match_ci(line)

\* sum(1 for word in words if word[0].isupper())
capitalized_words(words) ==
  Cardinality({k \in 1..Len(words) : Ch(words[k], 1) \in Uppers})

\* the title-case test: more than one word, 70% or more of them capitalized
title_case(line) ==
  LET words == split_ws(line)
  IN  Len(words) > 1 /\ 10 * capitalized_words(words) >= 7 * Len(words)

is_heading(line) ==
  IF startswith(line, "#") THEN FALSE
  ELSE IF startswith(line, "**") \/ startswith(line, "*") THEN FALSE
  ELSE IF Len(line) > 100 THEN FALSE
  ELSE IF heading_patterns_match(line) THEN TRUE
  ELSE IF endswith(line, ":") /\ Len(line) < 80 THEN TRUE
  ELSE IF /\ Len(line) < 60
          /\ ~(endswith(line, ".") \/ endswith(line, "!") \/ endswith(line, "?"))
          /\ title_case(line)
         THEN TRUE
  ELSE FALSE

\* r'^[1-9]\.\s+'
single_digit_match(line) ==
  Ch(line, 1) \in (Digits \ {"0"}) /\ Ch(line, 2) = "." /\ Ch(line, 3) \in Whitespace

\* r'^[A-Z]\.\s+|^[IVX]+\.\s+' (case sensitive here)
outline_match(line) ==
  \/ Ch(line, 1) \in Uppers /\ Ch(line, 2) = "." /\ Ch(line, 3) \in Whitespace
  \/ LET r == RunEnd(line, 1, {"I", "V", "X"})
     IN  r > 1 /\ Ch(line, r) = "." /\ Ch(line, r + 1) \in Whitespace

get_heading_level(line) ==
  IF single_digit_match(line) \/ isupper(line) THEN 1
  ELSE IF outline_match(line) THEN 3
  ELSE 4

(***************************************************************************)
(* add_list_item and add_formatted_paragraph.  has_styles says whether the *)
(* document has the named styles the renderer asks for ('Heading n',       *)
(* 'List Bullet', 'Quote'): python-docx raises when a style is missing.    *)
(* A call that raises may have left its paragraph in the document before   *)
(* it raised; `left` is that outcome of the library.                       *)
(***************************************************************************)
\* the keywords of the section-header test of add_formatted_paragraph
SectionKeywords ==
  {"CALL TO ORDER", "COMMUNICATIONS", "CONSENT AGENDA", "ACTION ITEM",
   "DISCUSSION", "INFORMATION", "ADJOURN"}

\* p.style = 'Quote' inside try/except: pass
quote_style(has_styles) == IF has_styles THEN "Quote" ELSE "Normal"

\* what a raising doc.add_heading(text, ...) or doc.add_paragraph(style=...)
\* leaves behind
leftover(text, left) == IF left THEN << plain_paragraph(text) >> ELSE << >>

\* the run "\u2022 " add_list_item adds by hand; "@" stands for the bullet
\* character U+2022, which is not in the character set of TLA+ strings
ManualBullet == "@ "

\* the paragraphs add_list_item adds to the document
add_list_item(text, has_styles, left) ==
  IF has_styles
    THEN << Para("List Bullet", 0, add_formatted_text_to_paragraph(text)) >>
    ELSE leftover("", left)
         \o << Para("Normal", 0,
                    << Run("normal", ManualBullet) >> \o add_formatted_text_to_paragraph(text)) >>

\* any(keyword in text.upper() for keyword in [...])
section_keyword_in(text) ==
  LET upper_text == upper(text)
  IN  \E keyword \in SectionKeywords : Contains(upper_text, keyword)

\* the paragraphs add_formatted_paragraph adds to the document
add_formatted_paragraph(text, is_list_continuation, has_styles, left) ==
  IF startswith_ci(text, 1, "**Action:**")
    THEN << Para(quote_style(has_styles), 0, << Run("bold", strip_bold(text)) >>) >>
  ELSE IF bold_prefix_match(text)
    THEN IF section_keyword_in(text)
           THEN IF has_styles
                  THEN << heading_paragraph(strip_bold(text), 1) >>
                  ELSE leftover(strip_bold(text), left) \o << plain_paragraph(text) >>
           ELSE << Para("Normal", 0, add_formatted_text_to_paragraph(text)) >>
  ELSE IF startswith(text, ">")
    THEN << Para(quote_style(has_styles), 0, << Run("italic", lstrip(text, {">", " "})) >>) >>
  ELSE << Para("Normal", 0, add_formatted_text_to_paragraph(text)) >>

\* a renderer that forgets the clamp
clamp_level_missing(level) == level

\* min(level, 3)
clamp_level(level) == IF level < 3 THEN level ELSE 3

(***************************************************************************)
(* The state of one run of minutes_to_word_template.                       *)
(***************************************************************************)
VARIABLES
  minutes_text,        \* the raw text to render
  template,            \* "none": no template file, "docx": a .docx template
  has_styles,          \* the document has the styles the renderer names
  raise_leaves,        \* a library call that raises has added its paragraph
  pc,                  \* "open", "loop", "save", "done"
  lines,               \* minutes_text.split('\n')
  idx,                 \* position of the for loop in lines (1-based)
  current_paragraph,   \* the accumulator
  current_src,         \* the line numbers of the accumulated lines
  in_list,             \* the in_list flag
  doc,                 \* the paragraphs of the document, in order
  log,                 \* the messages logged
  saved                \* the file at output_path: << >> or << its paragraphs >>

(***************************************************************************)
(* The state of the rest of the program: the files the extractors and the  *)
(* example loader read and what they return, the conversation, and the     *)
(* window with its worker threads.                                         *)
(***************************************************************************)
VARIABLES
  vtt_file,            \* file.readlines() of the captions file
  transcript_text,     \* what extract_vtt_text returns
  agenda_doc,          \* doc.paragraphs of the agenda document
  agenda_text,         \* what extract_word_text returns
  examples_file,       \* << >>: no examples file, << its lines >> otherwise
  examples,            \* what load_examples_from_jsonl returns
  messages,            \* the conversation generate_minutes_chatgpt assembles
  agenda_path,         \* self.agenda_path
  transcript_path,     \* self.transcript_path
  output_dir,          \* self.output_dir
  api_key_var,         \* self.api_key_var
  generate_button,     \* state of self.generate_button: "normal", "disabled"
  progress,            \* self.progress is running
  workers              \* the threads generate_minutes_thread started, in order

renderer_vars ==
  << minutes_text, template, has_styles, raise_leaves, lines, idx,
     current_paragraph, current_src, in_list, doc, saved >>

extractor_vars == << vtt_file, transcript_text, agenda_doc, agenda_text >>

prompt_vars == << examples_file, examples, messages >>

app_vars ==
  << agenda_path, transcript_path, output_dir, api_key_var, generate_button,
     progress, workers >>

vars == << renderer_vars, pc, log, extractor_vars, prompt_vars, app_vars >>

\* no run of the renderer is under way
RendererIdle ==
  /\ minutes_text = ""
  /\ template = "none"
  /\ has_styles = TRUE
  /\ raise_leaves = FALSE
  /\ lines = << >>
  /\ idx = 1
  /\ current_paragraph = << >>
  /\ current_src = << >>
  /\ in_list = FALSE
  /\ doc = << >>
  /\ saved = << >>

\* no captions file has been read
VttIdle == vtt_file = << >> /\ transcript_text = ""

\* no agenda document has been read
WordIdle == agenda_doc = << >> /\ agenda_text = ""

\* no conversation is being assembled
PromptIdle == examples_file = << >> /\ examples = << >> /\ messages = << >>

\* the window is not open
AppIdle ==
  /\ agenda_path = ""
  /\ transcript_path = ""
  /\ output_dir = ""
  /\ api_key_var = ""
  /\ generate_button = "normal"
  /\ progress = FALSE
  /\ workers = << >>

\* the lines the raw text is made of in the model
SampleLines ==
  { "",
    "## Example Heading",
    "#### Roll Call",
    "#tag",
    "- Item one",
    "- 1. Item two",
    "CALL TO ORDER",
    "The board met.",
    "3 members voted.",
    "**Action:** Approve the *final* budget.",
    "**Note** the discussion went on.",
    "*a* **b** c" }

\* more lines, which the shorter raw texts are made of as well
ExtraLines ==
  { "2. Item three",
    "A. Roll Call",
    "**Call to Order**",
    "> quoted remark" }

\* the sequences of exactly n lines drawn from S
LinesOf(S, n) == [1..n -> S]

\* the raw texts: MaxLines sample lines, or fewer lines of either kind,
\* joined by newlines
Texts ==
  {join(t, "\n") :
     t \in LinesOf(SampleLines, MaxLines)
            \cup UNION {LinesOf(SampleLines \cup ExtraLines, n) : n \in 0..(MaxLines - 1)}}

\* no template (python-docx's default document, which has every style), or a
\* .docx template without the styles; with either outcome of a raising call
Environments ==
  { [template |-> "none", has_styles |-> TRUE,  raise_leaves |-> FALSE],
    [template |-> "docx", has_styles |-> FALSE, raise_leaves |-> FALSE],
    [template |-> "docx", has_styles |-> FALSE, raise_leaves |-> TRUE] }

Init ==
  /\ minutes_text \in Texts
  /\ \E e \in Environments :
       /\ template = e.template
       /\ has_styles = e.has_styles
       /\ raise_leaves = e.raise_leaves
  /\ pc = "open"
  /\ lines = << >>
  /\ idx = 1
  /\ current_paragraph = << >>
  /\ current_src = << >>
  /\ in_list = FALSE
  /\ doc = << >>
  /\ log = << >>
  /\ saved = << >>
  /\ VttIdle
  /\ WordIdle
  /\ PromptIdle
  /\ AppIdle

\* the paragraphs `paras` with the bookkeeping fields text and src
Tagged(paras, text, src) ==
  [k \in 1..Len(paras) |->
     [style |-> paras[k].style, level |-> paras[k].level, runs |-> paras[k].runs,
      text |-> text, src |-> src]]

\* setup_basic_styles: doc.add_heading('Meeting Minutes', 0)
setup_basic_styles ==
  Tagged(<< Para("Title", 0, << Run("normal", "Meeting Minutes") >>) >>, "", << >>)

\* the stripped line the loop is at
Line == strip(lines[idx])

InLoop == pc = "loop" /\ idx <= Len(lines)

\* paragraph_text = ' '.join(current_paragraph)
paragraph_text == join(current_paragraph, " ")

\* self.add_formatted_paragraph(doc, paragraph_text, is_list)
Flush(is_list) ==
  Tagged(add_formatted_paragraph(paragraph_text, is_list, has_styles, raise_leaves),
         paragraph_text, current_src)

\* "if current_paragraph: ... add_formatted_paragraph(...)": what it adds
FlushIfPending(is_list) == IF Len(current_paragraph) > 0 THEN Flush(is_list) ELSE << >>

\* the except branch of parse_and_add_content: doc.add_paragraph(minutes_text)
parse_fallback ==
  Tagged(<< plain_paragraph(minutes_text) >>, minutes_text,
         [k \in 1..Len(lines) |-> k])

\* doc.add_heading(text, level) raises: what the document gets, and the
\* handler of parse_and_add_content ends the loop
HeadingRaises(before, text) ==
  /\ doc' = before \o Tagged(leftover(text, raise_leaves), text, << idx >>) \o parse_fallback
  /\ log' = Append(log, "Error parsing content")
  /\ pc' = "save"
  /\ current_paragraph' = << >>
  /\ current_src' = << >>
  /\ UNCHANGED << idx, in_list >>

(***************************************************************************)
(* minutes_to_word_template up to its call of parse_and_add_content, and   *)
(* the first two statements of parse_and_add_content.                      *)
(***************************************************************************)
OpenDocument ==
  /\ UNCHANGED << extractor_vars, prompt_vars, app_vars >>
  /\ pc = "open"
  /\ doc' = IF template = "none" THEN setup_basic_styles ELSE << >>
  /\ log' = Append(log, IF template = "none" THEN "No template file found"
                                             ELSE "Loaded .docx template")
  /\ lines' = split(minutes_text, "\n")
  /\ idx' = 1
  /\ current_paragraph' = << >>
  /\ current_src' = << >>
  /\ in_list' = FALSE
  /\ pc' = "loop"
  /\ UNCHANGED << minutes_text, template, has_styles, raise_leaves, saved >>

(***************************************************************************)
(* One iteration of the for loop of parse_and_add_content, by branch.      *)
(***************************************************************************)
\* "if not line:"
BlankLine ==
  /\ UNCHANGED << extractor_vars, prompt_vars, app_vars >>
  /\ InLoop
  /\ Line = ""
  /\ doc' = doc \o FlushIfPending(in_list)
  /\ in_list' = IF Len(current_paragraph) > 0 THEN FALSE ELSE in_list
  /\ current_paragraph' = << >>
  /\ current_src' = << >>
  /\ idx' = idx + 1
  /\ UNCHANGED << minutes_text, template, has_styles, raise_leaves, pc, lines, log, saved >>

\* "if line.startswith('#'):"
MarkdownHeading ==
  /\ UNCHANGED << extractor_vars, prompt_vars, app_vars >>
  /\ InLoop
  /\ Line # ""
  /\ startswith(Line, "#")
  /\ LET before == doc \o FlushIfPending(in_list)
         heading_match_ == heading_match(Line)
     IN  IF heading_match_.ok /\ ~has_styles
           THEN HeadingRaises(before, heading_match_.text)
           ELSE /\ doc' = before \o
                     (IF heading_match_.ok
                        THEN Tagged(<< heading_paragraph(heading_match_.text,
                                                          clamp_level(heading_match_.hashes)) >>,
                                    heading_match_.text, << idx >>)
                        ELSE << >>)
                /\ in_list' = IF Len(current_paragraph) > 0 THEN FALSE ELSE in_list
                /\ current_paragraph' = << >>
                /\ current_src' = << >>
                /\ idx' = idx + 1
                /\ UNCHANGED << pc, log >>
  /\ UNCHANGED << minutes_text, template, has_styles, raise_leaves, lines, saved >>

\* the condition of the list branch
is_list_line(line) == bullet_match(line) \/ number_match(line)

\* "if re.match(r'^[-*+]\s+', line) or re.match(r'^\d+\.\s+', line):"
ListLine ==
  /\ UNCHANGED << extractor_vars, prompt_vars, app_vars >>
  /\ InLoop
  /\ Line # ""
  /\ ~startswith(Line, "#")
  /\ is_list_line(Line)
  /\ LET flush == Len(current_paragraph) > 0 /\ ~in_list
     IN  /\ doc' = doc \o (IF flush THEN Flush(FALSE) ELSE << >>)
                       \o Tagged(add_list_item(list_text(Line), has_styles, raise_leaves),
                                 list_text(Line), << idx >>)
         /\ current_paragraph' = IF flush THEN << >> ELSE current_paragraph
         /\ current_src' = IF flush THEN << >> ELSE current_src
  /\ in_list' = TRUE
  /\ idx' = idx + 1
  /\ UNCHANGED << minutes_text, template, has_styles, raise_leaves, pc, lines, log, saved >>

\* "elif self.is_heading(line):"
HeuristicHeading ==
  /\ UNCHANGED << extractor_vars, prompt_vars, app_vars >>
  /\ InLoop
  /\ Line # ""
  /\ ~startswith(Line, "#")
  /\ ~is_list_line(Line)
  /\ is_heading(Line)
  /\ LET before == doc \o FlushIfPending(in_list)
     IN  IF ~has_styles
           THEN HeadingRaises(before, Line)
           ELSE /\ doc' = before \o Tagged(<< heading_paragraph(Line, get_heading_level(Line)) >>,
                                           Line, << idx >>)
                /\ in_list' = IF Len(current_paragraph) > 0 THEN FALSE ELSE in_list
                /\ current_paragraph' = << >>
                /\ current_src' = << >>
                /\ idx' = idx + 1
                /\ UNCHANGED << pc, log >>
  /\ UNCHANGED << minutes_text, template, has_styles, raise_leaves, lines, saved >>

\* "else:" regular content
RegularLine ==
  /\ UNCHANGED << extractor_vars, prompt_vars, app_vars >>
  /\ InLoop
  /\ Line # ""
  /\ ~startswith(Line, "#")
  /\ ~is_list_line(Line)
  /\ ~is_heading(Line)
  /\ LET flush == in_list /\ Len(current_paragraph) > 0
     IN  /\ doc' = doc \o (IF flush THEN Flush(TRUE) ELSE << >>)
         /\ in_list' = IF flush THEN FALSE ELSE in_list
         /\ current_paragraph' = (IF flush THEN << >> ELSE current_paragraph) \o << Line >>
         /\ current_src' = (IF flush THEN << >> ELSE current_src) \o << idx >>
  /\ idx' = idx + 1
  /\ UNCHANGED << minutes_text, template, has_styles, raise_leaves, pc, lines, log, saved >>

\* after the loop: "if current_paragraph:", and parse_and_add_content returns
EndOfInput ==
  /\ UNCHANGED << extractor_vars, prompt_vars, app_vars >>
  /\ pc = "loop"
  /\ idx > Len(lines)
  /\ doc' = doc \o FlushIfPending(in_list)
  /\ current_paragraph' = << >>
  /\ current_src' = << >>
  /\ pc' = "save"
  /\ UNCHANGED << minutes_text, template, has_styles, raise_leaves, lines, idx, in_list,
                  log, saved >>

(***************************************************************************)
(* The end of minutes_to_word_template: doc.save, or the except branch.    *)
(***************************************************************************)
\* doc.save(output_path) returns
SaveDocument ==
  /\ UNCHANGED << extractor_vars, prompt_vars, app_vars >>
  /\ pc = "save"
  /\ saved' = << doc >>
  /\ log' = Append(log, "Document saved")
  /\ pc' = "done"
  /\ UNCHANGED << minutes_text, template, has_styles, raise_leaves, lines, idx,
                  current_paragraph, current_src, in_list, doc >>

\* the paragraphs of the fallback document: the title, then one plain
\* paragraph for each chunk of minutes_text.split('\n\n') that is not blank
fallback_document ==
  LET paragraphs == SelectSeq(split(minutes_text, "\n\n"), LAMBDA para : strip(para) # "")
  IN  setup_basic_styles
      \o [k \in 1..Len(paragraphs) |->
            Tagged(<< plain_paragraph(strip(paragraphs[k])) >>, paragraphs[k], << >>)[1]]

\* Document(template_path) or doc.save(output_path) raises: the except branch
\* builds the fallback document and saves it, which may raise again
FallbackDocument ==
  /\ UNCHANGED << extractor_vars, prompt_vars, app_vars >>
  /\ \/ pc = "open" /\ template = "docx"
     \/ pc = "save"
  /\ doc' = fallback_document
  /\ \E fallback_saved \in BOOLEAN :
       /\ saved' = IF fallback_saved THEN << fallback_document >> ELSE saved
       /\ log' = log \o << "Error creating Word document",
                           "Attempting fallback document creation",
                           IF fallback_saved THEN "Fallback document saved"
                                             ELSE "Fallback also failed" >>
  /\ pc' = "done"
  /\ UNCHANGED << minutes_text, template, has_styles, raise_leaves, lines, idx,
                  current_paragraph, current_src, in_list >>

Next ==
  \/ OpenDocument
  \/ BlankLine
  \/ MarkdownHeading
  \/ ListLine
  \/ HeuristicHeading
  \/ RegularLine
  \/ EndOfInput
  \/ SaveDocument
  \/ FallbackDocument

Spec == Init /\ [][Next]_vars

(***************************************************************************)
(* Properties.  They are stated over the document: which paragraphs it     *)
(* holds, in which order, made from which lines.                           *)
(***************************************************************************)
\* the positions of the paragraphs made from line i
UnitsOf(i) == {p \in 1..Len(doc) : \E k \in 1..Len(doc[p].src) : doc[p].src[k] = i}

\* the paragraphs the renderer added (all but the title of a new document)
Rendered == SelectSeq(doc, LAMBDA u : u.style # "Title")

\* line i, stripped
Stripped(i) == strip(lines[i])

\* the lines the loop is done with, while the document is the one
\* parse_and_add_content writes
Processed == IF pc \in {"loop", "save"} THEN 1..(idx - 1) ELSE {}

\* paragraph u was made by flushing the accumulator: its first line went
\* through the "regular content" branch
FromFlush(u) ==
  /\ Len(u.src) > 0
  /\ LET first == Stripped(u.src[1])
     IN  ~startswith(first, "#") /\ ~is_list_line(first) /\ ~is_heading(first)

\* the heading rule as section 4.4 of the specification states it
ClaimedAllUpper(line) ==
  LET body == IF endswith(line, ":") THEN SubSeq(line, 1, Len(line) - 1) ELSE line
  IN  /\ Ch(body, 1) \in Uppers
      /\ \A k \in 1..Len(body) : Ch(body, k) \in (Uppers \cup Whitespace)

ClaimedIsHeading(line) ==
  /\ Len(line) <= 100
  /\ \/ number_match(line)
     \/ outline_match(line)
     \/ ClaimedAllUpper(line)
     \/ meeting_section_match_ci(line)
     \/ endswith(line, ":") /\ Len(line) < 80
     \/ /\ Len(line) < 60
        /\ ~(endswith(line, ".") \/ endswith(line, "!") \/ endswith(line, "?"))
        /\ title_case(line)

\* C1: when parse_and_add_content has gone through the raw text (in a
\* document that has the styles, so that no call raises), every non-blank
\* line is in exactly one paragraph of the document and no blank line is in
\* any.
C1_EveryLineInExactlyOneUnit ==
  (pc = "save" /\ has_styles) =>
    \A i \in 1..Len(lines) :
      IF Stripped(i) # "" THEN Cardinality(UnitsOf(i)) = 1 ELSE UnitsOf(i) = {}

\* a line of ordinary prose: no '#', list marker, '>' or emphasis marker at
\* its start, and no heading by the rule of the specification
OrdinaryProse(line) ==
  /\ line # ""
  /\ ~startswith(line, "#")
  /\ ~is_list_line(line)
  /\ ~startswith(line, ">")
  /\ ~startswith(line, "*")
  /\ ~ClaimedIsHeading(line)

\* C2: a raw text of ordinary prose lines, a blank line and one bullet line
\* gives exactly two paragraphs: one normal paragraph holding the prose, then
\* one list item.
C2_ProseThenBullet ==
  LET n == Len(lines)
  IN  ( /\ pc = "save"
        /\ has_styles
        /\ n >= 3
        /\ bullet_match(Stripped(n))
        /\ Stripped(n - 1) = ""
        /\ \A i \in 1..(n - 2) : OrdinaryProse(Stripped(i)) )
      => /\ Len(Rendered) = 2
         /\ Rendered[1].style = "Normal"
         /\ Rendered[1].src = [i \in 1..(n - 2) |-> i]
         /\ Rendered[1].text = join([i \in 1..(n - 2) |-> Stripped(i)], " ")
         /\ Rendered[2].style = "List Bullet"
         /\ Rendered[2].src = << n >>

\* the line with exactly its leading marker stripped
ClaimedListText(line) ==
  IF bullet_match(line) THEN strip_bullet(line) ELSE strip_number(line)

\* C3: every line that starts with a bullet or numbered marker becomes
\* exactly one list item whose text is the line without that marker, and the
\* list items of consecutive such lines are next to each other in the
\* document.
C3_ListRun ==
  has_styles =>
    \A i \in Processed :
      is_list_line(Stripped(i)) =>
        /\ Cardinality(UnitsOf(i)) = 1
        /\ \A p \in UnitsOf(i) :
             /\ doc[p].style = "List Bullet"
             /\ doc[p].text = ClaimedListText(Stripped(i))
             /\ (i + 1 \in Processed /\ is_list_line(Stripped(i + 1)))
                  => UnitsOf(i + 1) = {p + 1}

\* the number of '#' characters a line starts with
LeadingHashes(line) == RunEnd(line, 1, {"#"}) - 1

\* a line of 1 to 6 '#' characters, whitespace and a text
IsMarkdownHeading(line) ==
  /\ LeadingHashes(line) \in 1..6
  /\ Ch(line, LeadingHashes(line) + 1) \in Whitespace

\* C4: in a document that has the heading styles, once the loop is past a
\* line of n '#' characters (1 <= n <= 6), whitespace and a text T, the
\* document holds exactly one paragraph made from that line, a heading of
\* level min(n, 3) with text T; nothing accumulated from earlier lines is
\* still pending, and every paragraph made from an earlier line stands before
\* the heading.
C4_MarkdownHeading ==
  has_styles =>
    \A i \in Processed :
      IsMarkdownHeading(Stripped(i)) =>
        LET n == LeadingHashes(Stripped(i))
            T == lstrip(SubSeq(Stripped(i), n + 1, Len(Stripped(i))), Whitespace)
        IN  /\ Cardinality(UnitsOf(i)) = 1
            /\ \A p \in UnitsOf(i) :
                 /\ doc[p].style = "Heading"
                 /\ doc[p].level = (IF n < 3 THEN n ELSE 3)
                 /\ doc[p].runs = << Run("normal", T) >>
                 /\ \A j \in 1..(i - 1) : \A q \in UnitsOf(j) : q < p
            /\ \A k \in 1..Len(current_src) : current_src[k] > i

\* C4's case: a heading of more than three '#' was added at level 3 right
\* after the paragraph that was pending was flushed
C4_Witness ==
  /\ has_styles
  /\ \E p \in 2..Len(doc) :
       /\ doc[p].style = "Heading"
       /\ doc[p].level = 3
       /\ Len(doc[p].src) = 1
       /\ LeadingHashes(Stripped(doc[p].src[1])) > 3
       /\ doc[p - 1].style = "Normal"
       /\ doc[p - 1].src = << doc[p].src[1] - 1 >>

\* C5: a flushed paragraph that begins with '**Action:**' is one paragraph
\* with one bold run, and the text of the run has no '*' left.
C5_ActionBlock ==
  has_styles =>
    \A p \in 1..Len(doc) :
      (FromFlush(doc[p]) /\ startswith_ci(doc[p].text, 1, "**Action:**")) =>
        /\ doc[p].style = "Quote"
        /\ Len(doc[p].runs) = 1
        /\ doc[p].runs[1].fmt = "bold"
        /\ ~Contains(doc[p].runs[1].content, "*")

\* C6: a line that reaches is_heading is added as a heading exactly when the
\* rule of the specification makes it one.
C6_IsHeadingRule ==
  has_styles =>
    \A i \in Processed :
      LET line == Stripped(i)
      IN  (line # "" /\ ~startswith(line, "#") /\ ~startswith(line, "*")
           /\ ~is_list_line(line))
          => ((\E p \in UnitsOf(i) : doc[p].style = "Heading") <=> ClaimedIsHeading(line))

\* C7: every heading the renderer adds has a level from 1 to 3.
C7_HeadingLevels ==
  \A p \in 1..Len(doc) : doc[p].style = "Heading" => doc[p].level \in 1..3

\* the spans of the specification: the bold pass over the text, then the
\* italic pass over every segment that is not bold
RECURSIVE claimed_parts(_, _, _)
claimed_parts(text, bolds, pos) ==
  IF Len(bolds) = 0
    THEN (IF pos <= Len(text) THEN italic_parts(SubSeq(text, pos, Len(text))) ELSE << >>)
    ELSE (IF bolds[1].start > pos
            THEN italic_parts(SubSeq(text, pos, bolds[1].start - 1))
            ELSE << >>)
         \o << Run("bold", bolds[1].group) >>
         \o claimed_parts(text, Tail(bolds), bolds[1].end)

ClaimedSpans(text) ==
  SelectSeq(claimed_parts(text, bold_matches(text, 1), 1), LAMBDA r : strip(r.content) # "")

\* C8: the runs of every paragraph with inline formatting are the spans of
\* its text: bold for each '**...**' pair, italic for each '*...*' pair of
\* every other segment.
C8_InlineSpans ==
  has_styles =>
    \A p \in 1..Len(doc) :
      (Len(doc[p].src) > 0 /\ doc[p].style \in {"Normal", "List Bullet"})
        => doc[p].runs = ClaimedSpans(doc[p].text)

\* the leading bold span of the text names a section
ClaimedSectionSpan(text) ==
  LET span == upper(bold_matches(text, 1)[1].group)
  IN  \E keyword \in SectionKeywords : Contains(span, keyword)

\* C9: a flushed paragraph that begins with a bold span other than
\* '**Action:**' is a level-1 heading exactly when that span names a section,
\* and is a normal paragraph with inline spans otherwise.
C9_SectionHeader ==
  has_styles =>
    \A p \in 1..Len(doc) :
      ( /\ FromFlush(doc[p])
        /\ bold_prefix_match(doc[p].text)
        /\ ~startswith_ci(doc[p].text, 1, "**Action:**") )
      => IF ClaimedSectionSpan(doc[p].text)
           THEN doc[p].style = "Heading" /\ doc[p].level = 1
           ELSE /\ doc[p].style = "Normal"
                /\ doc[p].runs = add_formatted_text_to_paragraph(doc[p].text)

\* the chunks of the raw text between blank lines, stripped, the blank ones
\* left out
RECURSIVE chunks_of(_, _)
chunks_of(ls, chunk) ==
  LET done == IF strip(join(chunk, "\n")) = "" THEN << >> ELSE << strip(join(chunk, "\n")) >>
  IN  IF Len(ls) = 0 THEN done
      ELSE IF strip(ls[1]) = "" THEN done \o chunks_of(Tail(ls), << >>)
      ELSE chunks_of(Tail(ls), Append(chunk, ls[1]))

ClaimedChunks == chunks_of(split(minutes_text, "\n"), << >>)

\* C10: the claim's statement about a failure at the level of the whole
\* document: once a call of the parse loop has raised, or the document could
\* not be loaded or saved, the document holds one plain paragraph for each
\* chunk of the raw text, each chunk once, and nothing else (stated for a
\* library whose raising calls leave nothing behind).
C10_FailureKeepsTextOnce ==
  ( /\ pc \in {"save", "done"}
    /\ ~raise_leaves
    /\ \E k \in 1..Len(log) : log[k] \in {"Error parsing content", "Error creating Word document"} )
  => /\ Len(Rendered) = Len(ClaimedChunks)
     /\ \A p \in 1..Len(Rendered) :
          /\ Rendered[p].style = "Normal"
          /\ Len(Rendered[p].runs) = 1
          /\ Rendered[p].runs[1].fmt = "normal"
          /\ strip(Rendered[p].runs[1].content) = ClaimedChunks[p]

(***************************************************************************)
(* extract_vtt_text: the transcript extractor.                             *)
(***************************************************************************)
\* a captions file has at most this many lines
MaxVttLines == 3

\* re.sub(class+, repl, s): every maximal run of characters of `class`
\* becomes one `repl`.  What the characters lo..hi of s give, built by
\* halves: the first character of a run gives `repl`, the rest of the run
\* nothing, any other character itself
RECURSIVE sub_runs_between(_, _, _, _, _)
sub_runs_between(s, class, repl, lo, hi) ==
  IF lo > hi THEN ""
  ELSE IF lo = hi
    THEN (IF Ch(s, lo) \notin class THEN Ch(s, lo)
          ELSE IF lo > 1 /\ Ch(s, lo - 1) \in class THEN ""
          ELSE repl)
    ELSE LET mid == (lo + hi) \div 2
         IN  sub_runs_between(s, class, repl, lo, mid)
               \o sub_runs_between(s, class, repl, mid + 1, hi)

sub_runs(s, class, repl) == sub_runs_between(s, class, repl, 1, Len(s))

\* re.match(r'^\d{2}:\d{2}:\d{2}\.\d{3}', line)
timestamp_match(line) ==
  /\ \A i \in {1, 2, 4, 5, 7, 8, 10, 11, 12} : Ch(line, i) \in Digits
  /\ Ch(line, 3) = ":"
  /\ Ch(line, 6) = ":"
  /\ Ch(line, 9) = "."

\* an extractor whose pattern knows the WEBVTT header only
vtt_skip_match_header_only(line) == startswith(line, "WEBVTT")

\* re.match(r'^WEBVTT|^NOTE|^\d{2}:\d{2}:\d{2}\.\d{3}', line)
vtt_skip_match(line) ==
  \/ startswith(line, "WEBVTT")
  \/ startswith(line, "NOTE")
  \/ timestamp_match(line)

\* the body of the try block of extract_vtt_text, from the lines read
extract_vtt_text(file_lines) ==
  LET stripped == [k \in 1..Len(file_lines) |-> strip(file_lines[k])]
      content_lines == SelectSeq(stripped, LAMBDA line : ~vtt_skip_match(line) /\ line # "")
      joined == join(content_lines, " ")
  IN  strip(sub_runs(joined, Whitespace, " "))

\* the lines the captions files are made of in the model
VttSampleLines ==
  { "WEBVTT\n",
    "\n",
    "NOTE recorded by the clerk\n",
    "00:00:01.000 --> 00:00:04.000\n",
    "00:05.000 --> 00:09.000\n",
    "  Chair:  Welcome \t everyone. \n",
    "Clerk: NOTE the 00:10:00.000 mark",
    " \t WEBVTT - board meeting\n" }

VttFiles == UNION {LinesOf(VttSampleLines, n) : n \in 0..MaxVttLines}

InitVtt ==
  /\ vtt_file \in VttFiles
  /\ transcript_text = ""
  /\ pc = "extract_vtt_text"
  /\ log = << >>
  /\ RendererIdle
  /\ WordIdle
  /\ PromptIdle
  /\ AppIdle

\* the try block runs to its return
ExtractVtt ==
  /\ pc = "extract_vtt_text"
  /\ transcript_text' = extract_vtt_text(vtt_file)
  /\ pc' = "returned"
  /\ UNCHANGED << vtt_file, log, agenda_doc, agenda_text, renderer_vars, prompt_vars, app_vars >>

\* open() or readlines() raises: the except branch
ExtractVttFails ==
  /\ pc = "extract_vtt_text"
  /\ transcript_text' = ""
  /\ log' = Append(log, "Error reading VTT file")
  /\ pc' = "failed"
  /\ UNCHANGED << vtt_file, agenda_doc, agenda_text, renderer_vars, prompt_vars, app_vars >>

NextVtt ==
  \/ ExtractVtt
  \/ ExtractVttFails

SpecVtt == InitVtt /\ [][NextVtt]_vars

\* the line, without the white space around it, starts with WEBVTT or NOTE
ClaimedHeader(line) ==
  LET t == strip(line)
  IN  \/ Len(t) >= 6 /\ SubSeq(t, 1, 6) = "WEBVTT"
      \/ Len(t) >= 4 /\ SubSeq(t, 1, 4) = "NOTE"

\* the line, without the white space around it, starts with HH:MM:SS.mmm
ClaimedTimestamp(line) ==
  LET t == strip(line)
  IN  /\ Len(t) >= 12
      /\ \A i \in 1..12 :
           IF i \in {3, 6} THEN Ch(t, i) = ":"
           ELSE IF i = 9 THEN Ch(t, i) = "."
           ELSE Ch(t, i) \in Digits

\* the words of the lines that are neither blank, header nor timestamp, in
\* file order
RECURSIVE ClaimedWords(_)
ClaimedWords(file_lines) ==
  IF Len(file_lines) = 0 THEN << >>
  ELSE (IF ClaimedHeader(file_lines[1]) \/ ClaimedTimestamp(file_lines[1])
          THEN << >>
          ELSE split_ws(file_lines[1]))
       \o ClaimedWords(Tail(file_lines))

\* C11: the text extract_vtt_text returns is the lines of the file that are
\* not blank and match neither the header pattern nor the timestamp
\* pattern, in file order, joined by single spaces, every run of white
\* space being one space and none at either end; it is one line, which
\* matches neither pattern, and no word of a dropped line is in it unless a
\* kept line has it.
C11_TranscriptExtraction ==
  pc = "returned" =>
    /\ transcript_text = join(ClaimedWords(vtt_file), " ")
    /\ ~Contains(transcript_text, "\n")
    /\ ~Contains(transcript_text, "\t")
    /\ ~Contains(transcript_text, "  ")
    /\ transcript_text = strip(transcript_text)
    /\ ~ClaimedHeader(transcript_text)
    /\ ~ClaimedTimestamp(transcript_text)

\* a file with a header, a note, a timestamp and a line of speech has been
\* read, and the speech alone is returned
C11_Witness ==
  /\ pc = "returned"
  /\ \E k \in 1..Len(vtt_file) : ClaimedHeader(vtt_file[k])
  /\ \E k \in 1..Len(vtt_file) : ClaimedTimestamp(vtt_file[k])
  /\ transcript_text = "Chair: Welcome everyone."

(***************************************************************************)
(* extract_word_text: the agenda extractor.  A paragraph of the agenda     *)
(* document is a record: its text (python-docx gives a line break inside a *)
(* paragraph as "\n" and a tab as "\t") and the name of its style.         *)
(***************************************************************************)
\* an agenda document has at most this many paragraphs
MaxParagraphs == 3

\* str.lower() on one character
lower_ch(c) ==
  IF c \in Uppers THEN LowerSeq[CHOOSE i \in 1..26 : UpperSeq[i] = c] ELSE c

\* str.lower()
RECURSIVE lower(_)
lower(s) == IF s = "" THEN "" ELSE lower_ch(Ch(s, 1)) \o lower(Tail(s))

\* '#' * level
RECURSIVE hashes(_)
hashes(level) == IF level = 0 THEN "" ELSE "#" \o hashes(level - 1)

\* the level the style name of a heading paragraph gives
heading_style_level(name) ==
  IF Contains(name, "heading 1") THEN 1
  ELSE IF Contains(name, "heading 2") THEN 2
  ELSE IF Contains(name, "heading 3") THEN 3
  ELSE 1

\* the text one paragraph adds to text_content
paragraph_content(paragraph) ==
  LET text == strip(paragraph.text)
      name == lower(paragraph.style)
  IN  IF startswith(name, "heading")
        THEN hashes(heading_style_level(name)) \o " " \o text
        ELSE text

\* re.sub(r'\n{3,}', '\n\n', s)
\* What the characters lo..hi of s give, built by halves: a run of one or
\* two newlines stays, and of a longer run the first two newlines stay
RECURSIVE sub_newlines_between(_, _, _)
sub_newlines_between(s, lo, hi) ==
  IF lo > hi THEN ""
  ELSE IF lo = hi
    THEN (IF Ch(s, lo) = "\n" /\ Ch(s, lo - 1) = "\n" /\ Ch(s, lo - 2) = "\n"
            THEN ""
            ELSE Ch(s, lo))
    ELSE LET mid == (lo + hi) \div 2
         IN  sub_newlines_between(s, lo, mid) \o sub_newlines_between(s, mid + 1, hi)

sub_newlines(s) == sub_newlines_between(s, 1, Len(s))

\* the body of the try block of extract_word_text, from doc.paragraphs
extract_word_text(paragraphs) ==
  LET kept == SelectSeq(paragraphs, LAMBDA paragraph : strip(paragraph.text) # "")
      text_content == [k \in 1..Len(kept) |-> paragraph_content(kept[k])]
      combined_text == join(text_content, "\n")
  IN  strip(sub_newlines(sub_runs(combined_text, {" ", "\t"}, " ")))

\* the paragraphs the agenda documents are made of in the model
SampleParagraphs ==
  { [text |-> "Call to Order", style |-> "Heading 1"],
    [text |-> "Roll Call", style |-> "Heading 2"],
    [text |-> "  Budget   review \t 2025 ", style |-> "Normal"],
    [text |-> "", style |-> "Normal"],
    [text |-> " \t ", style |-> "Normal"],
    [text |-> "Item\n\n\n\nNext", style |-> "Normal"],
    [text |-> "Item\n \n\t\n \nNext", style |-> "List Paragraph"],
    [text |-> "Minutes\nof May", style |-> "Heading 3"] }

AgendaDocuments == UNION {LinesOf(SampleParagraphs, n) : n \in 0..MaxParagraphs}

InitWord ==
  /\ agenda_doc \in AgendaDocuments
  /\ agenda_text = ""
  /\ pc = "extract_word_text"
  /\ log = << >>
  /\ RendererIdle
  /\ VttIdle
  /\ PromptIdle
  /\ AppIdle

\* the try block runs to its return
ExtractWord ==
  /\ pc = "extract_word_text"
  /\ agenda_text' = extract_word_text(agenda_doc)
  /\ pc' = "returned"
  /\ UNCHANGED << agenda_doc, log, vtt_file, transcript_text, renderer_vars, prompt_vars,
                  app_vars >>

\* Document(filepath) raises: the except branch
ExtractWordFails ==
  /\ pc = "extract_word_text"
  /\ agenda_text' = ""
  /\ log' = Append(log, "Error reading Word document")
  /\ pc' = "failed"
  /\ UNCHANGED << agenda_doc, vtt_file, transcript_text, renderer_vars, prompt_vars,
                  app_vars >>

NextWord ==
  \/ ExtractWord
  \/ ExtractWordFails

SpecWord == InitWord /\ [][NextWord]_vars

\* a blank line: nothing, or spaces and tabs only
BlankText(line) == \A i \in 1..Len(line) : Ch(line, i) \in {" ", "\t"}

\* the lines of the text returned
AgendaLines == split(agenda_text, "\n")

\* the lines of the document that are not blank, in order, each with its
\* runs of spaces and tabs as one space and none at either end
ClaimedAgendaLines ==
  LET texts == [k \in 1..Len(agenda_doc) |->
                  IF strip(agenda_doc[k].text) = "" THEN ""
                  ELSE paragraph_content(agenda_doc[k])]
      all_lines == split(join(texts, "\n"), "\n")
      content == SelectSeq(all_lines, LAMBDA line : ~BlankText(line))
  IN  [k \in 1..Len(content) |-> join(split_ws(content[k]), " ")]

\* C12 (a): no three blank lines in a row are left, blank lines that hold
\* spaces or tabs included
C12_NoLongBlankRun ==
  pc = "returned" =>
    ~\E i \in 1..(Len(AgendaLines) - 2) :
       BlankText(AgendaLines[i]) /\ BlankText(AgendaLines[i + 1]) /\ BlankText(AgendaLines[i + 2])

\* C12 (b): no run of spaces and tabs is longer than one space
C12_SpacesCollapsed ==
  pc = "returned" =>
    /\ ~Contains(agenda_text, "\t")
    /\ ~Contains(agenda_text, "  ")

\* C12 (c): the lines that are not blank are all kept, in order, and where
\* no paragraph has a line break inside, consecutive paragraphs are
\* consecutive lines
C12_NewlinesKept ==
  pc = "returned" =>
    LET content == SelectSeq(AgendaLines, LAMBDA line : ~BlankText(line))
    IN  /\ [k \in 1..Len(content) |-> strip(content[k])] = ClaimedAgendaLines
        /\ (\A k \in 1..Len(agenda_doc) : ~Contains(agenda_doc[k].text, "\n"))
             => agenda_text = join(ClaimedAgendaLines, "\n")

\* C12: the text extract_word_text returns has no run of three or more
\* blank lines (a blank line may hold spaces or tabs), no run of spaces and
\* tabs longer than one space, and every newline between two paragraphs
\* that are not blank.
C12_AgendaExtraction ==
  /\ C12_NoLongBlankRun
  /\ C12_SpacesCollapsed
  /\ C12_NewlinesKept

(***************************************************************************)
(* json.loads, for the JSON the example files of the model hold: null,     *)
(* true, false, integers, strings without escape sequences, arrays and     *)
(* objects.  A JSON value is a record tagged by its Python type; an object *)
(* keeps its members in the order of the text.                             *)
(***************************************************************************)
JNull == [t |-> "NoneType"]

JBool(b) == [t |-> "bool", v |-> b]

JInt(n) == [t |-> "int", v |-> n]

JStr(s) == [t |-> "str", v |-> s]

JList(items) == [t |-> "list", v |-> items]

JDict(keys, values) == [t |-> "dict", k |-> keys, v |-> values]

\* what json.loads gives for a text that is not JSON: JSONDecodeError
JSONDecodeError == [t |-> "JSONDecodeError"]

\* the parser could not go on
Failed == [ok |-> FALSE]

Parsed(val, pos) == [ok |-> TRUE, val |-> val, pos |-> pos]

\* the first position at or after i whose character is not in `class`
RECURSIVE scan(_, _, _)
scan(s, i, class) == IF Ch(s, i) \in class THEN scan(s, i + 1, class) ELSE i

\* the first position at or after i that holds no JSON white space
skip_ws(s, i) == scan(s, i, Whitespace)

\* the position of the first double quote at or after i, 0 when there is none
RECURSIVE find_quote(_, _)
find_quote(s, i) ==
  IF i > Len(s) THEN 0 ELSE IF Ch(s, i) = "\"" THEN i ELSE find_quote(s, i + 1)

\* s[i-1:].startswith(word)
literal_at(s, i, word) ==
  i + Len(word) - 1 <= Len(s) /\ SubSeq(s, i, i + Len(word) - 1) = word

\* int() of a numeral
RECURSIVE to_int(_)
to_int(digits) ==
  IF digits = "" THEN 0
  ELSE 10 * to_int(SubSeq(digits, 1, Len(digits) - 1))
       + (CHOOSE d \in 0..9 : ToString(d) = Ch(digits, Len(digits)))

\* a string, from its opening quote at i
parse_string(s, i) ==
  LET close == find_quote(s, i + 1)
  IN  IF close = 0 THEN Failed ELSE Parsed(SubSeq(s, i + 1, close - 1), close + 1)

\* an integer, from its sign or first digit at i
parse_int(s, i) ==
  LET first == IF Ch(s, i) = "-" THEN i + 1 ELSE i
      end == scan(s, first, Digits)
  IN  IF end = first \/ (Ch(s, first) = "0" /\ end > first + 1) \/ Ch(s, end) \in {".", "e", "E"}
        THEN Failed
        ELSE Parsed(JInt((IF first = i THEN 1 ELSE -1) * to_int(SubSeq(s, first, end - 1))), end)

RECURSIVE parse_value(_, _), parse_items(_, _, _), parse_members(_, _, _, _)

\* a value, from position i0
parse_value(s, i0) ==
  LET i == skip_ws(s, i0)
      c == Ch(s, i)
  IN  IF c = "\"" THEN
        LET str == parse_string(s, i)
        IN  IF str.ok THEN Parsed(JStr(str.val), str.pos) ELSE Failed
      ELSE IF c = "[" THEN
        IF Ch(s, skip_ws(s, i + 1)) = "]"
          THEN Parsed(JList(<< >>), skip_ws(s, i + 1) + 1)
          ELSE parse_items(s, i + 1, << >>)
      ELSE IF c = "{" THEN
        IF Ch(s, skip_ws(s, i + 1)) = "}"
          THEN Parsed(JDict(<< >>, << >>), skip_ws(s, i + 1) + 1)
          ELSE parse_members(s, i + 1, << >>, << >>)
      ELSE IF literal_at(s, i, "null") THEN Parsed(JNull, i + 4)
      ELSE IF literal_at(s, i, "true") THEN Parsed(JBool(TRUE), i + 4)
      ELSE IF literal_at(s, i, "false") THEN Parsed(JBool(FALSE), i + 5)
      ELSE IF c = "-" \/ c \in Digits THEN parse_int(s, i)
      ELSE Failed

\* the items of an array after `items`, from position i
parse_items(s, i, items) ==
  LET item == parse_value(s, i)
  IN  IF ~item.ok THEN Failed
      ELSE LET j == skip_ws(s, item.pos)
           IN  IF Ch(s, j) = "," THEN parse_items(s, j + 1, Append(items, item.val))
               ELSE IF Ch(s, j) = "]" THEN Parsed(JList(Append(items, item.val)), j + 1)
               ELSE Failed

\* the members of an object after those of `keys`, from position i
parse_members(s, i, keys, values) ==
  LET j == skip_ws(s, i)
      key == IF Ch(s, j) = "\"" THEN parse_string(s, j) ELSE Failed
  IN  IF ~key.ok THEN Failed
      ELSE LET colon == skip_ws(s, key.pos)
               value == IF Ch(s, colon) = ":" THEN parse_value(s, colon + 1) ELSE Failed
           IN  IF ~value.ok THEN Failed
               ELSE LET e == skip_ws(s, value.pos)
                        ks == Append(keys, key.val)
                        vs == Append(values, value.val)
                    IN  IF Ch(s, e) = "," THEN parse_members(s, e + 1, ks, vs)
                        ELSE IF Ch(s, e) = "}" THEN Parsed(JDict(ks, vs), e + 1)
                        ELSE Failed

\* json.loads(s)
json_loads(s) ==
  LET value == parse_value(s, 1)
  IN  IF value.ok /\ skip_ws(s, value.pos) > Len(s) THEN value.val ELSE JSONDecodeError

(***************************************************************************)
(* The operations of Python on a decoded value that the loader uses.  Each *)
(* raises TypeError on the types that do not support it.                   *)
(***************************************************************************)
\* key in x
py_in(key, x) ==
  IF x.t = "dict" THEN \E i \in 1..Len(x.k) : x.k[i] = key
  ELSE IF x.t = "list" THEN \E i \in 1..Len(x.v) : x.v[i].t = "str" /\ x.v[i].v = key
  ELSE IF x.t = "str" THEN Contains(x.v, key)
  ELSE FALSE

\* "key in x" raises TypeError
py_in_raises(x) == x.t \notin {"dict", "list", "str"}

\* x[key] for a string key: the member of that name given last
py_getitem(x, key) ==
  LET hits == {i \in 1..Len(x.k) : x.k[i] = key}
  IN  x.v[CHOOSE i \in hits : \A j \in hits : j <= i]

\* x[key] raises TypeError for a string key
py_getitem_raises(x) == x.t # "dict"

\* len(x)
py_len(x) ==
  IF x.t = "dict" THEN Cardinality({x.k[i] : i \in 1..Len(x.k)}) ELSE Len(x.v)

\* len(x) raises TypeError
py_len_raises(x) == x.t \notin {"dict", "list", "str"}

(***************************************************************************)
(* load_examples_from_jsonl and the conversation generate_minutes_chatgpt  *)
(* assembles.                                                              *)
(***************************************************************************)
\* an examples file has at most this many lines
MaxExampleLines == 3

\* what the loader returns and logs when it leaves through "except Exception"
LoadRaised(logged) ==
  [examples |-> << >>, log |-> Append(logged, "Error loading JSONL file")]

\* the for loop of load_examples_from_jsonl from line line_num on, with the
\* examples found and the messages logged so far, and the two statements
\* after it
RECURSIVE load_loop(_, _, _, _)
load_loop(file_lines, line_num, found, logged) ==
  IF line_num > Len(file_lines)
    THEN [examples |-> found,
          log |-> Append(logged, "Loaded " \o ToString(Len(found)) \o " examples from JSONL file")]
    ELSE
      LET line == strip(file_lines[line_num])
          example == json_loads(line)
          invalid == Append(logged, "Warning: Invalid example structure at line "
                                      \o ToString(line_num))
      IN  IF line = "" THEN load_loop(file_lines, line_num + 1, found, logged)
          ELSE IF example.t = "JSONDecodeError"
            THEN load_loop(file_lines, line_num + 1, found,
                           Append(logged, "Warning: JSON decode error at line "
                                            \o ToString(line_num)))
          ELSE IF py_in_raises(example) THEN LoadRaised(logged)
          ELSE IF ~py_in("messages", example)
            THEN load_loop(file_lines, line_num + 1, found, invalid)
          ELSE IF py_getitem_raises(example) THEN LoadRaised(logged)
          ELSE IF py_len_raises(py_getitem(example, "messages")) THEN LoadRaised(logged)
          ELSE IF py_len(py_getitem(example, "messages")) < 3
            THEN load_loop(file_lines, line_num + 1, found, invalid)
          ELSE load_loop(file_lines, line_num + 1, Append(found, example), logged)

\* load_examples_from_jsonl for a file that exists
load_examples_from_jsonl(file_lines) == load_loop(file_lines, 1, << >>, << >>)

\* a turn of the conversation
Turn(role, content) == JDict(<< "role", "content" >>, << JStr(role), JStr(content) >>)

system_msg ==
  Turn("system",
       "You are an expert at creating structured meeting minutes for public agency board meetings. "
       \o "Given an agenda and meeting transcript, you produce concise, professional minutes that "
       \o "follow the agenda structure, cogently summarize key discussions without quotes, and "
       \o "particularly highlight board actions reached during the meeting ,"
       \o "(i.e., motions that are seconded and pass by vote using Robert's Rules of Order). "
       \o "Closely follow the style, formatting and conventions you observe in the included example.")

final_task(agenda, transcript) ==
  Turn("user",
       "Please create meeting minutes based on this agenda and transcript.\n\nAGENDA:\n"
       \o agenda \o "\n\nTRANSCRIPT:\n" \o transcript)

\* the turns "if examples and len(examples) > 0:" adds; the messages of an
\* example the loader returned are a list in the model
example_turns(loaded) ==
  IF Len(loaded) > 0
       /\ py_in("messages", loaded[1])
       /\ py_len(py_getitem(loaded[1], "messages")) >= 3
    THEN << py_getitem(loaded[1], "messages").v[2], py_getitem(loaded[1], "messages").v[3] >>
    ELSE << >>

\* the lines the examples files are made of in the model
ExampleSampleLines ==
  { "{\"messages\":[{\"role\":\"system\",\"content\":\"s\"},{\"role\":\"user\",\"content\":\"u1\"},{\"role\":\"assistant\",\"content\":\"a1\"}]}\n",
    "{\"messages\":[{\"role\":\"user\",\"content\":\"u2\"},{\"role\":\"assistant\",\"content\":\"a2\"},{\"role\":\"user\",\"content\":\"u3\"},{\"role\":\"assistant\",\"content\":\"a3\"}]}\n",
    "{\"messages\": [\n",
    "{\"prompt\":\"p\"}\n",
    "{\"messages\":[{\"role\":\"user\",\"content\":\"u\"}]}\n",
    "null\n",
    "{\"messages\":null}\n",
    "\n" }

ExampleFiles == UNION {LinesOf(ExampleSampleLines, n) : n \in 0..MaxExampleLines}

PromptAgendas == {"# Call to Order", "1. Budget"}

PromptTranscripts == {"Chair: Welcome everyone."}

InitPrompt ==
  /\ examples_file \in {<< >>} \cup {<< f >> : f \in ExampleFiles}
  /\ agenda_text \in PromptAgendas
  /\ transcript_text \in PromptTranscripts
  /\ examples = << >>
  /\ messages = << >>
  /\ pc = "generate_minutes_chatgpt"
  /\ log = << >>
  /\ RendererIdle
  /\ vtt_file = << >>
  /\ agenda_doc = << >>
  /\ AppIdle

\* "else: examples = []"
NoExamplesFile ==
  /\ pc = "generate_minutes_chatgpt"
  /\ examples_file = << >>
  /\ examples' = << >>
  /\ log' = Append(log, "No examples file found. Using zero-shot approach.")
  /\ pc' = "build"
  /\ UNCHANGED << examples_file, messages, extractor_vars, renderer_vars, app_vars >>

\* "if examples_file: examples = self.load_examples_from_jsonl(examples_file)"
LoadExamples ==
  /\ pc = "generate_minutes_chatgpt"
  /\ examples_file # << >>
  /\ LET loaded == load_examples_from_jsonl(examples_file[1])
     IN  /\ examples' = loaded.examples
         /\ log' = log \o loaded.log \o << "Using examples from" >>
  /\ pc' = "build"
  /\ UNCHANGED << examples_file, messages, extractor_vars, renderer_vars, app_vars >>

\* from "messages = [system_msg]" to "Sending request to OpenAI..."
BuildMessages ==
  /\ pc = "build"
  /\ messages' = << system_msg >> \o example_turns(examples)
                   \o << final_task(agenda_text, transcript_text) >>
  /\ log' = log \o (IF example_turns(examples) # << >>
                      THEN << "Using one-shot learning with example" >> ELSE << >>)
                \o << "Sending request to OpenAI..." >>
  /\ pc' = "request"
  /\ UNCHANGED << examples_file, examples, extractor_vars, renderer_vars, app_vars >>

NextPrompt ==
  \/ NoExamplesFile
  \/ LoadExamples
  \/ BuildMessages

SpecPrompt == InitPrompt /\ [][NextPrompt]_vars

\* the line holds a valid record: a JSON object with a `messages` list of at
\* least 3 turns
ClaimedValidRecord(line) ==
  LET record == json_loads(strip(line))
  IN  /\ record.t = "dict"
      /\ \E i \in 1..Len(record.k) : record.k[i] = "messages"
      /\ py_getitem(record, "messages").t = "list"
      /\ Len(py_getitem(record, "messages").v) >= 3

\* the line is malformed: not blank and no valid record
ClaimedMalformed(line) == strip(line) # "" /\ ~ClaimedValidRecord(line)

\* the valid records of the file, in file order
ClaimedExamples(file_lines) ==
  LET valid == SelectSeq(file_lines, ClaimedValidRecord)
  IN  [k \in 1..Len(valid) |-> json_loads(strip(valid[k]))]

\* the warnings among the messages logged
Warnings == SelectSeq(log, LAMBDA message : startswith(message, "Warning:"))

\* C13: load_examples_from_jsonl returns exactly the valid records of the
\* file, in file order, and has logged one warning for each malformed line:
\* no malformed line removes a valid record before or after it.
C13_MalformedLinesSkipped ==
  (pc \in {"build", "request"} /\ examples_file # << >>) =>
    /\ examples = ClaimedExamples(examples_file[1])
    /\ Len(Warnings) = Len(SelectSeq(examples_file[1], ClaimedMalformed))

\* the roles of the turns of the conversation
Roles == [k \in 1..Len(messages) |-> py_getitem(messages[k], "role").v]

\* the valid examples of the library
Library == IF examples_file = << >> THEN << >> ELSE ClaimedExamples(examples_file[1])

\* C14: the conversation starts with the system turn and ends with the user
\* turn that holds the agenda and the transcript; between them is nothing
\* when the library has no valid example, and otherwise the user turn and
\* the assistant turn of its first valid example; the roles are
\* system,user or system,user,assistant,user.
C14_Conversation ==
  pc = "request" =>
    LET last == messages[Len(messages)]
        between == SubSeq(messages, 2, Len(messages) - 1)
    IN  /\ Len(messages) >= 2
        /\ messages[1] = system_msg
        /\ py_getitem(last, "role").v = "user"
        /\ Contains(py_getitem(last, "content").v, "AGENDA:\n" \o agenda_text \o "\n")
        /\ endswith(py_getitem(last, "content").v, "TRANSCRIPT:\n" \o transcript_text)
        /\ IF Len(Library) = 0
             THEN between = << >>
             ELSE /\ Len(between) = 2
                  /\ \E i, j \in 1..Len(Library[1].v[1].v) :
                       /\ i < j
                       /\ between[1] = Library[1].v[1].v[i]
                       /\ between[2] = Library[1].v[1].v[j]
        /\ Roles \in { << "system", "user" >>, << "system", "user", "assistant", "user" >> }

(***************************************************************************)
(* The window: the Generate button starts a thread that runs               *)
(* generate_minutes.  A thread is a record: its position, the texts it     *)
(* holds, and bookkeeping for the properties: the stages it ran, the       *)
(* completion requests it sent, the documents it saved, the dialogs it     *)
(* showed and the messages it logged, in order (how the messages of two    *)
(* threads interleave in the log is not kept).                             *)
(***************************************************************************)
\* at most this many threads are started
MaxWorkers == 2

\* the message generate_minutes logs for the first input that is missing,
\* were the transcript looked at before the agenda
validate_transcript_first ==
  IF transcript_path = "" THEN "Please select a transcript file."
  ELSE IF agenda_path = "" THEN "Please select an agenda file."
  ELSE IF output_dir = "" THEN "Please select an output directory."
  ELSE IF api_key_var = "" THEN "Please enter your OpenAI API key in settings."
  ELSE ""

\* "Validate inputs": the message logged before "return", "" when no input
\* is missing
validate ==
  IF agenda_path = "" THEN "Please select an agenda file."
  ELSE IF transcript_path = "" THEN "Please select a transcript file."
  ELSE IF output_dir = "" THEN "Please select an output directory."
  ELSE IF api_key_var = "" THEN "Please enter your OpenAI API key in settings."
  ELSE ""

\* a pipeline that goes on whatever a stage returned
not_text_never(text) == FALSE

\* "not agenda_text", "not transcript_text", "not minutes_text"; None and the
\* empty string are both the empty string in the model
not_text(text) == text = ""

Thread ==
  [pc |-> "spawned", agenda_text |-> "", transcript_text |-> "", minutes_text |-> "",
   stages |-> << >>, requests |-> << >>, documents |-> << >>, dialogs |-> << >>,
   log |-> << >>]

\* the agenda documents, captions files and examples file of the window
AppAgendaDocuments ==
  { << >>,
    << [text |-> "Call to Order", style |-> "Heading 1"] >> }

AppVttFiles ==
  { << "WEBVTT\n" >>,
    << "WEBVTT\n", "Chair: Welcome everyone.\n" >> }

AppExamplesFile == << << "{\"messages\":[{\"role\":\"system\",\"content\":\"s\"},{\"role\":\"user\",\"content\":\"u1\"},{\"role\":\"assistant\",\"content\":\"a1\"}]}\n" >> >>

\* what load_examples_from_jsonl gives for the examples file of the window,
\* the same at every call
AppLoaded == load_examples_from_jsonl(AppExamplesFile[1])

\* what the completion returns when it returns
Responses == {"", "# Minutes"}

InitApp ==
  /\ agenda_path \in {"", "agenda.docx"}
  /\ transcript_path \in {"", "meeting.vtt"}
  /\ output_dir \in {"", "out"}
  /\ api_key_var \in {"", "sk"}
  /\ agenda_doc \in AppAgendaDocuments
  /\ vtt_file \in AppVttFiles
  /\ examples_file = AppExamplesFile
  /\ generate_button = "normal"
  /\ progress = FALSE
  /\ workers = << >>
  /\ pc = "mainloop"
  /\ log = << >>
  /\ agenda_text = ""
  /\ transcript_text = ""
  /\ examples = << >>
  /\ messages = << >>
  /\ RendererIdle

\* what no step of the window changes
AppFixed ==
  UNCHANGED << agenda_path, transcript_path, output_dir, api_key_var, pc, log,
               extractor_vars, prompt_vars, renderer_vars >>

\* thread w logs the messages `texts` and goes on as `thread`
Step(w, thread, texts) == workers' = [workers EXCEPT ![w] = [thread EXCEPT !.log = @ \o texts]]

\* generate_minutes_thread: the command of the Generate button
Click ==
  /\ generate_button = "normal"
  /\ Len(workers) < MaxWorkers
  /\ workers' = Append(workers, Thread)
  /\ UNCHANGED << generate_button, progress >>
  /\ AppFixed

\* "Validate inputs"
Validate(w) ==
  /\ workers[w].pc = "spawned"
  /\ Step(w, [workers[w] EXCEPT !.pc = IF validate = "" THEN "start" ELSE "finally"],
          IF validate = "" THEN << >> ELSE << validate >>)
  /\ UNCHANGED << generate_button, progress >>
  /\ AppFixed

\* "Start progress bar"
StartProgress(w) ==
  /\ workers[w].pc = "start"
  /\ progress' = TRUE
  /\ generate_button' = "disabled"
  /\ Step(w, [workers[w] EXCEPT !.pc = "agenda"], << "Starting minutes generation..." >>)
  /\ AppFixed

\* agenda_text = self.extract_word_text(...), which may fail to read the file
ExtractAgenda(w) ==
  /\ workers[w].pc = "agenda"
  /\ \E read \in BOOLEAN :
       LET text == IF read THEN extract_word_text(agenda_doc) ELSE ""
       IN  /\ Step(w, [workers[w] EXCEPT
                         !.agenda_text = text,
                         !.stages = Append(@, "extract_agenda"),
                         !.pc = IF not_text(text) THEN "finally" ELSE "transcript"],
                   << "Extracting text from agenda..." >>
                     \o (IF read THEN << >> ELSE << "Error reading Word document" >>)
                     \o (IF not_text(text) THEN << "Failed to extract agenda text." >> ELSE << >>))
  /\ UNCHANGED << generate_button, progress >>
  /\ AppFixed

\* transcript_text = self.extract_vtt_text(...), which may fail to read the file
ExtractTranscript(w) ==
  /\ workers[w].pc = "transcript"
  /\ \E read \in BOOLEAN :
       LET text == IF read THEN extract_vtt_text(vtt_file) ELSE ""
       IN  /\ Step(w, [workers[w] EXCEPT
                         !.transcript_text = text,
                         !.stages = Append(@, "extract_transcript"),
                         !.pc = IF not_text(text) THEN "finally" ELSE "complete"],
                   << "Extracting text from transcript..." >>
                     \o (IF read THEN << >> ELSE << "Error reading VTT file" >>)
                     \o (IF not_text(text) THEN << "Failed to extract transcript text." >> ELSE << >>))
  /\ UNCHANGED << generate_button, progress >>
  /\ AppFixed

\* minutes_text = self.generate_minutes_chatgpt(...): the conversation is
\* assembled and sent; the call raises, or returns a text
Complete(w) ==
  /\ workers[w].pc = "complete"
  /\ LET loaded == IF examples_file = AppExamplesFile
                     THEN AppLoaded
                     ELSE load_examples_from_jsonl(examples_file[1])
         conversation == << system_msg >> \o example_turns(loaded.examples)
                           \o << final_task(workers[w].agenda_text, workers[w].transcript_text) >>
         before == loaded.log \o << "Using examples from" >>
                     \o (IF example_turns(loaded.examples) # << >>
                           THEN << "Using one-shot learning with example" >> ELSE << >>)
                     \o << "Sending request to OpenAI..." >>
     IN  \E raises \in BOOLEAN, content \in Responses :
           LET text == IF raises THEN "" ELSE content
           IN  /\ raises => content = ""
               /\ Step(w, [workers[w] EXCEPT
                             !.minutes_text = text,
                             !.stages = Append(@, "complete"),
                             !.requests = Append(@, conversation),
                             !.pc = IF not_text(text) THEN "finally" ELSE "render"],
                       before \o << IF raises THEN "Error generating minutes"
                                              ELSE "Minutes generated successfully!" >>)
  /\ UNCHANGED << generate_button, progress >>
  /\ AppFixed

\* self.minutes_to_word_template(...), whose steps are those of Spec: the
\* document is saved, or the fallback document is, or neither save succeeds;
\* it returns in each case.  Of its messages the thread keeps those of the
\* saves.
Render(w) ==
  /\ workers[w].pc = "render"
  /\ \E outcome \in {"saved", "fallback", "failed"} :
       /\ Step(w, [workers[w] EXCEPT
                     !.stages = Append(@, "render"),
                     !.documents = IF outcome = "failed" THEN @
                                   ELSE Append(@, [minutes_text |-> workers[w].minutes_text,
                                                   fallback |-> outcome = "fallback"]),
                     !.pc = "report"],
               << "Creating Word document..." >>
                 \o (IF outcome = "saved"
                       THEN << "Document saved" >>
                       ELSE << "Error creating Word document",
                               "Attempting fallback document creation",
                               IF outcome = "fallback" THEN "Fallback document saved"
                                                       ELSE "Fallback also failed" >>))
  /\ UNCHANGED << generate_button, progress >>
  /\ AppFixed

\* the log line and the dialog after minutes_to_word_template
ReportSuccess(w) ==
  /\ workers[w].pc = "report"
  /\ Step(w, [workers[w] EXCEPT !.dialogs = Append(@, "Success"), !.pc = "finally"],
          << "Minutes generation completed successfully!" >>)
  /\ UNCHANGED << generate_button, progress >>
  /\ AppFixed

\* "except Exception as e:": the success dialog raises after the success line
\* was logged; the handler logs the error and shows it
Unexpected(w) ==
  /\ workers[w].pc = "report"
  /\ Step(w, [workers[w] EXCEPT !.dialogs = Append(@, "Error"), !.pc = "finally"],
          << "Minutes generation completed successfully!", "Unexpected error" >>)
  /\ UNCHANGED << generate_button, progress >>
  /\ AppFixed

\* a finally block that stops the progress bar and leaves the button alone
Finally_progress_only(w) ==
  /\ workers[w].pc = "finally"
  /\ progress' = FALSE
  /\ UNCHANGED generate_button
  /\ Step(w, [workers[w] EXCEPT !.pc = "ended"], << >>)
  /\ AppFixed

\* "finally:"
Finally(w) ==
  /\ workers[w].pc = "finally"
  /\ progress' = FALSE
  /\ generate_button' = "normal"
  /\ Step(w, [workers[w] EXCEPT !.pc = "ended"], << >>)
  /\ AppFixed

NextApp ==
  \/ Click
  \/ \E w \in 1..Len(workers) : Validate(w)
  \/ \E w \in 1..Len(workers) : StartProgress(w)
  \/ \E w \in 1..Len(workers) : ExtractAgenda(w)
  \/ \E w \in 1..Len(workers) : ExtractTranscript(w)
  \/ \E w \in 1..Len(workers) : Complete(w)
  \/ \E w \in 1..Len(workers) : Render(w)
  \/ \E w \in 1..Len(workers) : ReportSuccess(w)
  \/ \E w \in 1..Len(workers) : Unexpected(w)
  \/ \E w \in 1..Len(workers) : Finally(w)

SpecApp == InitApp /\ [][NextApp]_vars

\* the next statement of thread w
ThreadStep(w) ==
  /\ w \in 1..Len(workers)
  /\ \/ Validate(w)
     \/ StartProgress(w)
     \/ ExtractAgenda(w)
     \/ ExtractTranscript(w)
     \/ Complete(w)
     \/ Render(w)
     \/ ReportSuccess(w)
     \/ Unexpected(w)
     \/ Finally(w)

\* The window with its threads scheduled: a thread that was started is an
\* operating-system thread, which goes on to its next statement; no statement
\* of generate_minutes waits for another thread, the completion call returns
\* or raises, and a dialog returns when it is dismissed.  Nothing obliges the
\* user to click.
SpecAppLive == InitApp /\ [][NextApp]_vars /\ \A w \in 1..MaxWorkers : WF_vars(ThreadStep(w))

\* the messages thread w logged, in order
ThreadLog(w) == workers[w].log

\* the threads that have begun generate_minutes
Begun == {w \in 1..Len(workers) : workers[w].pc # "spawned"}

\* an input of the run is missing
ClaimedMissing == agenda_path = "" \/ transcript_path = "" \/ output_dir = "" \/ api_key_var = ""

\* the message for the first missing input, in the order agenda path,
\* transcript path, output directory, API credential
ClaimedMissingMessage ==
  CASE agenda_path = "" -> "Please select an agenda file."
    [] agenda_path # "" /\ transcript_path = "" -> "Please select a transcript file."
    [] agenda_path # "" /\ transcript_path # "" /\ output_dir = ""
         -> "Please select an output directory."
    [] OTHER -> "Please enter your OpenAI API key in settings."

\* C15: when an input is missing, a run logs the message for the first
\* missing one and nothing else, and goes straight to its end: it extracts
\* nothing, sends no request, saves no document and shows no dialog.
C15_ValidationAborts ==
  ClaimedMissing =>
    \A w \in Begun :
      /\ ThreadLog(w) = << ClaimedMissingMessage >>
      /\ workers[w].pc \in {"finally", "ended"}
      /\ workers[w].stages = << >>
      /\ workers[w].requests = << >>
      /\ workers[w].documents = << >>
      /\ workers[w].dialogs = << >>

\* a run has ended where the agenda is there and both the transcript and the
\* API key are missing: it logged the message for the transcript
C15_Witness ==
  /\ agenda_path # ""
  /\ transcript_path = ""
  /\ api_key_var = ""
  /\ \E w \in Begun :
       /\ workers[w].pc = "ended"
       /\ ThreadLog(w) = << "Please select a transcript file." >>

\* the stages of a run, in order
Stages == << "extract_agenda", "extract_transcript", "complete", "render" >>

\* thread w ran the stage
Ran(w, stage) == \E k \in 1..Len(workers[w].stages) : workers[w].stages[k] = stage

\* C16: the stages of a run are run in order, each once and only after the
\* stages before it succeeded: the transcript is extracted only after an
\* agenda text that is not empty, the completion is requested (once) only
\* after both texts are not empty, and the document is rendered, saved and
\* reported only after a completion that returned a text.
C16_StagesShortCircuit ==
  \A w \in 1..Len(workers) :
    /\ workers[w].stages = SubSeq(Stages, 1, Len(workers[w].stages))
    /\ Ran(w, "extract_transcript") => workers[w].agenda_text # ""
    /\ Ran(w, "complete") => workers[w].agenda_text # "" /\ workers[w].transcript_text # ""
    /\ Len(workers[w].requests) = (IF Ran(w, "complete") THEN 1 ELSE 0)
    /\ Ran(w, "render") => workers[w].minutes_text # ""
    /\ ~Ran(w, "render") => workers[w].documents = << >> /\ workers[w].dialogs = << >>
    /\ (workers[w].pc = "ended" /\ workers[w].stages # Stages) =>
         LET last == workers[w].stages[Len(workers[w].stages)]
         IN  \/ workers[w].stages = << >> /\ ClaimedMissing
             \/ last = "extract_agenda" /\ workers[w].agenda_text = ""
             \/ last = "extract_transcript" /\ workers[w].transcript_text = ""
             \/ last = "complete" /\ workers[w].minutes_text = ""

\* a run has ended whose extractions succeeded and whose completion failed:
\* one request was sent, no document was saved and no dialog shown
C16_Witness ==
  \E w \in 1..Len(workers) :
    /\ workers[w].pc = "ended"
    /\ workers[w].stages = << "extract_agenda", "extract_transcript", "complete" >>
    /\ workers[w].minutes_text = ""
    /\ Len(workers[w].requests) = 1
    /\ workers[w].documents = << >>

\* the threads that are inside generate_minutes
Running == {w \in 1..Len(workers) : workers[w].pc \notin {"spawned", "ended"}}

\* C17: at most one thread is inside generate_minutes at any time.
C17_NoOverlap == Cardinality(Running) <= 1

\* C20: a run that reported success (the log line and the dialog) has saved
\* a document, by the normal path or by the fallback.
C20_SuccessMeansSaved ==
  \A w \in 1..Len(workers) :
    (\/ \E k \in 1..Len(workers[w].dialogs) : workers[w].dialogs[k] = "Success"
     \/ \E k \in 1..Len(ThreadLog(w)) :
          ThreadLog(w)[k] = "Minutes generation completed successfully!")
      => workers[w].documents # << >>

\* thread w was started
Started(w) == w \in 1..Len(workers)

\* thread w has left generate_minutes
Ended(w) == w \in 1..Len(workers) /\ workers[w].pc = "ended"

\* a step in which a thread leaves generate_minutes
RunEnds ==
  \E w \in 1..Len(workers) : workers[w].pc # "ended" /\ workers'[w].pc = "ended"

C18_BlankLineResets ==
  (pc = "loop" /\ idx > 1 /\ strip(lines[idx - 1]) = "") =>
    /\ current_paragraph = << >>
    /\ in_list = FALSE

\* C19: in a document that has the styles, the paragraphs are in the order
\* of their lines: the paragraph of a line is never after the paragraph of
\* a later line, and no line is still in the accumulator when a later line
\* is in the document.
C19_SourceOrder ==
  has_styles =>
    \A i \in Processed : \A j \in Processed :
      i < j =>
        /\ \A p \in UnitsOf(i) : \A q \in UnitsOf(j) : p <= q
        /\ (\E k \in 1..Len(current_src) : current_src[k] = i) => UnitsOf(j) = {}

====
